---- MODULE Spec2Model ----
(***************************************************************************)
(* A model of cfntdv (src/src/cfntdv/main.py): the CloudFormation template *)
(* dependency visualisation tool.  The run of main() is a state machine:   *)
(* parse the arguments, list the templates of the directory, scan them one *)
(* by one, build the dependency graph, warn about self references, render  *)
(* the Mermaid text and print or write it.                                 *)
(*                                                                         *)
(* A Python str is a sequence of one-character strings, so that rendering, *)
(* regular-expression matching and the lexicographic sort are computed     *)
(* character by character.  Mapping keys are TLA+ strings: the code only   *)
(* compares them for equality.                                             *)
(***************************************************************************)
EXTENDS Integers, Sequences, FiniteSets, TLC

(***************************************************************************)
(* Bounds of the model.                                                    *)
(***************************************************************************)
\* at most this many template files lie in the scanned directory
MaxDocs == 2
\* at most this many edges are in an edge list rendered on its own
MaxEdges == 3
\* at most this many entries are in the Outputs mapping of a document scanned
\* on its own
MaxOutputs == 2
\* at most this many characters are in a string normalized on its own
MaxLen == 4

(***************************************************************************)
(* Characters and strings.                                                 *)
(***************************************************************************)
NL == "\n"
\* the characters U+0060 and U+0022, which a TLA+ string cannot hold
Backtick == "<backtick>"
DQuote == "<dquote>"

\* the printable ASCII characters, in code-point order starting at 32
Printable ==
    <<" ", "!", DQuote, "#", "$", "%", "&", "'", "(", ")", "*", "+", ",", "-", ".", "/",
      "0", "1", "2", "3", "4", "5", "6", "7", "8", "9", ":", ";", "<", "=", ">", "?",
      "@", "A", "B", "C", "D", "E", "F", "G", "H", "I", "J", "K", "L", "M", "N", "O",
      "P", "Q", "R", "S", "T", "U", "V", "W", "X", "Y", "Z", "[", "\\", "]", "^", "_",
      Backtick, "a", "b", "c", "d", "e", "f", "g", "h", "i", "j", "k", "l", "m", "n", "o",
      "p", "q", "r", "s", "t", "u", "v", "w", "x", "y", "z", "{", "|", "}", "~">>

Chars == {Printable[i] : i \in 1..Len(Printable)} \cup {NL}

\* the code point of a character (Python compares str by code points)
Ord == [c \in Chars |->
          IF c = NL THEN 10
          ELSE 31 + (CHOOSE i \in 1..Len(Printable) : Printable[i] = c)]

Letters ==
    {"A", "B", "C", "D", "E", "F", "G", "H", "I", "J", "K", "L", "M", "N", "O", "P",
     "Q", "R", "S", "T", "U", "V", "W", "X", "Y", "Z",
     "a", "b", "c", "d", "e", "f", "g", "h", "i", "j", "k", "l", "m", "n", "o", "p",
     "q", "r", "s", "t", "u", "v", "w", "x", "y", "z"}

Digits == {"0", "1", "2", "3", "4", "5", "6", "7", "8", "9"}

\* the character class [A-Za-z0-9_]
IdentChars == Letters \cup Digits \cup {"_"}

\* s[i..] starts with pat
HasAt(s, i, pat) ==
    /\ i >= 1
    /\ i + Len(pat) - 1 <= Len(s)
    /\ SubSeq(s, i, i + Len(pat) - 1) = pat

\* s from index i on
Drop(s, i) == SubSeq(s, i, Len(s))

\* str < str of Python: the first differing character decides, else the length
LexLess(a, b) ==
    LET n == IF Len(a) < Len(b) THEN Len(a) ELSE Len(b)
        diff == {i \in 1..n : a[i] # b[i]}
    IN  IF diff = {}
        THEN Len(a) < Len(b)
        ELSE LET k == CHOOSE i \in diff : \A j \in diff : i <= j
             IN  Ord[a[k]] < Ord[b[k]]

RECURSIVE InsertSorted(_, _)
\* insert line x into the ascending list ls, after the lines not greater than it
InsertSorted(ls, x) ==
    IF ls = <<>> THEN <<x>>
    ELSE IF LexLess(x, Head(ls)) THEN <<x>> \o ls
    ELSE <<Head(ls)>> \o InsertSorted(Tail(ls), x)

RECURSIVE SortLines(_)
\* list.sort() on a list of str
SortLines(ls) ==
    IF ls = <<>> THEN <<>>
    ELSE InsertSorted(SortLines(SubSeq(ls, 1, Len(ls) - 1)), ls[Len(ls)])

RECURSIVE Join(_, _)
\* sep.join(ls)
Join(ls, sep) ==
    IF ls = <<>> THEN <<>>
    ELSE IF Len(ls) = 1 THEN ls[1]
    ELSE ls[1] \o sep \o Join(Tail(ls), sep)

RECURSIVE RemoveChar(_, _)
\* s.replace(c, "")
RemoveChar(s, c) ==
    IF s = <<>> THEN <<>>
    ELSE IF Head(s) = c THEN RemoveChar(Tail(s), c)
    ELSE <<Head(s)>> \o RemoveChar(Tail(s), c)

(***************************************************************************)
(* The regular expressions and normalize_dynamic_node.                     *)
(***************************************************************************)
ResolvePrefix == <<"{", "{", "r", "e", "s", "o", "l", "v", "e", ":">>
CloseBraces == <<"}", "}">>

\* the alternatives (ssm|ssm-secure|secretsmanager), in the order tried
ServiceTags ==
    << <<"s", "s", "m">>,
       <<"s", "s", "m", "-", "s", "e", "c", "u", "r", "e">>,
       <<"s", "e", "c", "r", "e", "t", "s", "m", "a", "n", "a", "g", "e", "r">> >>

RECURSIVE LazyEnd(_, _)
\* `.*?}}` from index k: the index of the last character of the first `}}`
\* reachable over characters other than newline, 0 when there is none
LazyEnd(s, k) ==
    IF HasAt(s, k, CloseBraces) THEN k + 1
    ELSE IF k > Len(s) \/ s[k] = NL THEN 0
    ELSE LazyEnd(s, k + 1)

\* DYNAMIC_REF_PATTERN matched at index i: the index of the match's last
\* character, 0 when the pattern does not match there
DynamicRefEnd(s, i) ==
    IF HasAt(s, i, ResolvePrefix) THEN LazyEnd(s, i + Len(ResolvePrefix)) ELSE 0

RECURSIVE FindAllFrom(_, _)
\* FindAllFrom that stops after the first match (search instead of findall)
FindAllFrom_FirstOnly(s, i) ==
    IF i > Len(s) THEN <<>>
    ELSE LET e == DynamicRefEnd(s, i)
         IN  IF e = 0 THEN FindAllFrom(s, i + 1) ELSE <<SubSeq(s, i, e)>>

\* DYNAMIC_REF_PATTERN.findall(s), scanning from index i: the matches in
\* order, leftmost first and not overlapping
FindAllFrom(s, i) ==
    IF i > Len(s) THEN <<>>
    ELSE LET e == DynamicRefEnd(s, i)
         IN  IF e = 0 THEN FindAllFrom(s, i + 1)
             ELSE <<SubSeq(s, i, e)>> \o FindAllFrom(s, e + 1)

DYNAMIC_REF_PATTERN_findall(s) == FindAllFrom(s, 1)

\* the whole of s is `{{resolve:` tag `:` payload `}}` with a payload of one
\* or more characters other than newline
TagFullMatch(s, tag) ==
    LET head == ResolvePrefix \o tag \o <<":">>
    IN  /\ HasAt(s, 1, head)
        /\ Len(s) >= Len(head) + 1 + Len(CloseBraces)
        /\ HasAt(s, Len(s) - 1, CloseBraces)
        /\ \A k \in (Len(head) + 1)..(Len(s) - 2) : s[k] # NL

\* DYN_NODE_PATTERN.fullmatch(s): <<>> when there is no match, else
\* <<group(1), group(2)>>
DYN_NODE_PATTERN_fullmatch(s) ==
    LET hits == {t \in 1..Len(ServiceTags) : TagFullMatch(s, ServiceTags[t])}
    IN  IF hits = {} THEN <<>>
        ELSE LET t == CHOOSE h \in hits : \A g \in hits : h <= g
                 tag == ServiceTags[t]
             IN  <<tag, SubSeq(s, Len(ResolvePrefix) + Len(tag) + 2, Len(s) - 2)>>

RECURSIVE IdentRun(_, _)
\* the length of the longest run of [A-Za-z0-9_] starting at index i
IdentRun(s, i) ==
    IF i <= Len(s) /\ s[i] \in IdentChars THEN 1 + IdentRun(s, i + 1) ELSE 0

RECURSIVE SubPlaceholders(_, _)
\* SubPlaceholders with the replacement r"\1": the `$` is dropped as well
SubPlaceholders_DropDollar(s, i) ==
    IF i > Len(s) THEN <<>>
    ELSE LET n == IdentRun(s, i + 2)
         IN  IF /\ HasAt(s, i, <<"$", "{">>)
                /\ n >= 1
                /\ HasAt(s, i + 2 + n, <<"}">>)
             THEN SubSeq(s, i + 2, i + 1 + n) \o SubPlaceholders(s, i + 3 + n)
             ELSE <<s[i]>> \o SubPlaceholders(s, i + 1)

\* re.sub(r"\$\{([A-Za-z0-9_]+)\}", r"$\1", s), scanning from index i
SubPlaceholders(s, i) ==
    IF i > Len(s) THEN <<>>
    ELSE LET n == IdentRun(s, i + 2)
         IN  IF /\ HasAt(s, i, <<"$", "{">>)
                /\ n >= 1
                /\ HasAt(s, i + 2 + n, <<"}">>)
             THEN <<"$">> \o SubSeq(s, i + 2, i + 1 + n)
                         \o SubPlaceholders(s, i + 3 + n)
             ELSE <<s[i]>> \o SubPlaceholders(s, i + 1)

normalize_dynamic_node(node) ==
    LET normalized == SubPlaceholders(node, 1)
    IN  RemoveChar(RemoveChar(normalized, "{"), "}")

(***************************************************************************)
(* Decoded documents: the tree json.loads returns, made of mappings        *)
(* (ordered key/value pairs with distinct keys), sequences and string      *)
(* scalars.  None is what dict.get returns for a missing key.              *)
(***************************************************************************)
Str(s) == [tag |-> "str", s |-> s]
Map(kv) == [tag |-> "map", kv |-> kv]
List(items) == [tag |-> "seq", items |-> items]
None == [tag |-> "none"]

\* key in d
HasKey(d, key) == \E i \in 1..Len(d.kv) : d.kv[i][1] = key

\* d.get(key, default)
DictGet(d, key, default) ==
    IF HasKey(d, key)
    THEN d.kv[CHOOSE i \in 1..Len(d.kv) : d.kv[i][1] = key][2]
    ELSE default

\* bool(v): empty strings, empty containers and None are false
Truthy(v) ==
    CASE v.tag = "str" -> v.s # <<>>
      [] v.tag = "map" -> v.kv # <<>>
      [] v.tag = "seq" -> v.items # <<>>
      [] OTHER -> FALSE

\* hash(v) is defined: dict and list are unhashable
Hashable(v) == v.tag \notin {"map", "seq"}

\* A set under construction: crash is TRUE once an exception was raised
\* (AttributeError of a .get/.values on a non-mapping, TypeError of
\* set.add on an unhashable value); nothing is added after that.
EmptyAcc == [crash |-> FALSE, set |-> {}]
Crashed(acc) == [crash |-> TRUE, set |-> acc.set]

\* set.add(v)
SetAdd(acc, v) ==
    IF acc.crash THEN acc
    ELSE IF Hashable(v) THEN [crash |-> FALSE, set |-> acc.set \cup {v.s}]
    ELSE Crashed(acc)

RECURSIVE find_imports(_, _)
RECURSIVE ImportsOfItems(_, _, _)
RECURSIVE ImportsOfList(_, _, _)
\* find_imports(obj, imports), imports being the accumulator acc
find_imports(obj, acc) ==
    IF acc.crash THEN acc
    ELSE IF obj.tag = "map" THEN ImportsOfItems(obj.kv, 1, acc)
    ELSE IF obj.tag = "seq" THEN ImportsOfList(obj.items, 1, acc)
    ELSE acc

\* for key, value in obj.items(), from the i-th item on
ImportsOfItems(kv, i, acc) ==
    IF i > Len(kv) \/ acc.crash THEN acc
    ELSE LET key == kv[i][1]
             value == kv[i][2]
             added == IF key = "Fn::ImportValue" THEN SetAdd(acc, value) ELSE acc
         IN  ImportsOfItems(kv, i + 1, find_imports(value, added))

\* for item in obj, from the i-th item on
ImportsOfList(items, i, acc) ==
    IF i > Len(items) \/ acc.crash THEN acc
    ELSE ImportsOfList(items, i + 1, find_imports(items[i], acc))

RECURSIVE AddAll(_, _)
\* for match in matches: dynamics.add(match)
AddAll(acc, matches) ==
    IF matches = <<>> THEN acc
    ELSE AddAll(SetAdd(acc, Str(Head(matches))), Tail(matches))

RECURSIVE find_dynamic_references(_, _)
RECURSIVE DynamicsOfList(_, _, _)
\* find_dynamic_references(obj, dynamics), dynamics being the accumulator acc
find_dynamic_references(obj, acc) ==
    IF obj.tag = "map"
    THEN DynamicsOfList([i \in 1..Len(obj.kv) |-> obj.kv[i][2]], 1, acc)
    ELSE IF obj.tag = "seq" THEN DynamicsOfList(obj.items, 1, acc)
    ELSE IF obj.tag = "str" THEN AddAll(acc, DYNAMIC_REF_PATTERN_findall(obj.s))
    ELSE acc

\* for value in values, from the i-th value on
DynamicsOfList(values, i, acc) ==
    IF i > Len(values) THEN acc
    ELSE DynamicsOfList(values, i + 1, find_dynamic_references(values[i], acc))

\* one round of `for v in outputs.values()`
ExportOfEntry(v, acc) ==
    IF acc.crash THEN acc
    ELSE IF v.tag # "map" THEN Crashed(acc)
    ELSE LET e == DictGet(v, "Export", Map(<<>>))
         IN  IF e.tag # "map" THEN Crashed(acc)
             ELSE LET export == DictGet(e, "Name", None)
                  IN  IF Truthy(export) THEN SetAdd(acc, export) ELSE acc

RECURSIVE ExportsOfEntries(_, _, _)
\* for v in outputs.values(), from the i-th entry on
ExportsOfEntries(kv, i, acc) ==
    IF i > Len(kv) THEN acc
    ELSE ExportsOfEntries(kv, i + 1, ExportOfEntry(kv[i][2], acc))

\* the Outputs part of extract_exports_and_imports
ExtractExports(parsed_data) ==
    IF HasKey(parsed_data, "Outputs")
    THEN LET outputs == DictGet(parsed_data, "Outputs", None)
         IN  IF outputs.tag # "map" THEN Crashed(EmptyAcc)
             ELSE ExportsOfEntries(outputs.kv, 1, EmptyAcc)
    ELSE EmptyAcc

\* extract_exports_and_imports after a successful decode: crash is TRUE when
\* an exception left the function, and then no result is returned
extract_exports_and_imports(parsed_data) ==
    LET exports == ExtractExports(parsed_data)
        imports == IF exports.crash THEN Crashed(EmptyAcc)
                   ELSE find_imports(parsed_data, EmptyAcc)
        dynamics == IF imports.crash THEN Crashed(EmptyAcc)
                    ELSE find_dynamic_references(parsed_data, EmptyAcc)
    IN  IF exports.crash \/ imports.crash \/ dynamics.crash
        THEN [crash |-> TRUE, exports |-> {}, imports |-> {}, dynamics |-> {}]
        ELSE [crash |-> FALSE, exports |-> exports.set, imports |-> imports.set,
              dynamics |-> dynamics.set]

(***************************************************************************)
(* build_dependency_graph.  template_info is the dict of the code as the   *)
(* sequence of its items in insertion order, each item a record            *)
(* [path, exports, imports, dynamics].                                     *)
(***************************************************************************)
Unknown == <<"(", "u", "n", "k", "n", "o", "w", "n", ")">>

\* the orders in which iterating over the set S can yield its elements
Orderings(S) ==
    {f \in [1..Cardinality(S) -> S] : \A i, j \in DOMAIN f : f[i] = f[j] => i = j}

\* AddExports keeping the first producer of a name (setdefault)
AddExports_FirstWins(nodes, doc) ==
    [n \in DOMAIN nodes \cup doc.exports |->
        IF n \in DOMAIN nodes THEN nodes[n] ELSE doc.path]

\* nodes[export] = path for every export of one document
AddExports(nodes, doc) ==
    [n \in DOMAIN nodes \cup doc.exports |->
        IF n \in doc.exports THEN doc.path ELSE nodes[n]]

RECURSIVE BuildNodes(_, _, _)
\* the first loop of build_dependency_graph, from the i-th document on
BuildNodes(template_info, i, nodes) ==
    IF i > Len(template_info) THEN nodes
    ELSE BuildNodes(template_info, i + 1, AddExports(nodes, template_info[i]))

\* the edge appended for one import of the document at path
ImportEdge(path, imp, nodes) ==
    IF imp \in DOMAIN nodes
    THEN <<path, nodes[imp], imp, "import">>
    ELSE <<path, Unknown, imp, "import">>

DynamicEdge(path, dyn) == <<path, dyn, dyn, "dynamic">>

\* DocEdgeLists without the else branch: unresolved imports are skipped
DocEdgeLists_SkipUnknown(doc, nodes) ==
    {[i \in 1..Len(io) |-> ImportEdge(doc.path, io[i], nodes)]
        \o [i \in 1..Len(do) |-> DynamicEdge(doc.path, do[i])] :
     io \in Orderings(doc.imports \cap DOMAIN nodes),
     do \in Orderings(doc.dynamics)}

\* the edge lists one document can contribute: its imports in the order the
\* set yields them, then its dynamics in the order that set yields them
DocEdgeLists(doc, nodes) ==
    {[i \in 1..Len(io) |-> ImportEdge(doc.path, io[i], nodes)]
        \o [i \in 1..Len(do) |-> DynamicEdge(doc.path, do[i])] :
     io \in Orderings(doc.imports), do \in Orderings(doc.dynamics)}

RECURSIVE EdgeLists(_, _, _)
\* EdgeLists keeping only the first edge of each label and kind
EdgeLists_Dedup(template_info, i, nodes) ==
    IF i > Len(template_info) THEN {<<>>}
    ELSE {de \o SelectSeq(rest, LAMBDA e :
                    \A k \in 1..Len(de) : de[k][3] # e[3] \/ de[k][4] # e[4]) :
          de \in DocEdgeLists(template_info[i], nodes),
          rest \in EdgeLists(template_info, i + 1, nodes)}

\* the second loop of build_dependency_graph, from the i-th document on:
\* every edge list it can return
EdgeLists(template_info, i, nodes) ==
    IF i > Len(template_info) THEN {<<>>}
    ELSE {de \o rest : de \in DocEdgeLists(template_info[i], nodes),
                       rest \in EdgeLists(template_info, i + 1, nodes)}

\* the ProducerIndex build_dependency_graph returns
GraphNodes(template_info) == BuildNodes(template_info, 1, <<>>)

\* the edge lists build_dependency_graph can return
GraphEdgeLists(template_info) ==
    EdgeLists(template_info, 1, GraphNodes(template_info))

(***************************************************************************)
(* generate_mermaid_text: the text.                                        *)
(***************************************************************************)
Header ==
    <<"#", " ", "C", "F", "n", " ", "t", "e", "m", "p", "l", "a", "t", "e", " ",
      "d", "e", "p", "e", "n", "d", "e", "n", "c", "y", NL, NL,
      Backtick, Backtick, Backtick, "m", "e", "r", "m", "a", "i", "d">>
GraphWord == <<"g", "r", "a", "p", "h", " ">>
Footer == <<Backtick, Backtick, Backtick, NL>>
Indent == <<" ", " ", " ", " ">>
Arrow == <<"-", "-", ">", "|">>
DynamicWord == <<"d", "y", "n", "a", "m", "i", "c">>

RECURSIVE LastSlash(_, _)
\* the index of the last "/" of p at or before index i, 0 when there is none
LastSlash(p, i) ==
    IF i = 0 THEN 0 ELSE IF p[i] = "/" THEN i ELSE LastSlash(p, i - 1)

\* Path(p).name: the final path segment
PathName(p) == Drop(p, LastSlash(p, Len(p)) + 1)

\* Path(x).name if x not in ("(unknown)",) else x
ShortName(x) == IF x # Unknown THEN PathName(x) ELSE x

\* DynamicLabelNode that leaves the captured payload as it is
DynamicLabelNode_RawPayload(imp) ==
    LET m == DYN_NODE_PATTERN_fullmatch(imp)
    IN  IF m # <<>>
        THEN <<m[1], m[2]>>
        ELSE <<DynamicWord, normalize_dynamic_node(imp)>>

\* the label and the node of a dynamic edge
DynamicLabelNode(imp) ==
    LET m == DYN_NODE_PATTERN_fullmatch(imp)
    IN  IF m # <<>>
        THEN <<m[1], normalize_dynamic_node(m[2])>>
        ELSE <<DynamicWord, normalize_dynamic_node(imp)>>

\* the line appended to edge_lines for one edge
EdgeLine(e) ==
    LET src_name == ShortName(e[1])
    IN  IF e[4] = "dynamic"
        THEN LET ln == DynamicLabelNode(e[3])
             IN  Indent \o src_name \o Arrow \o ln[1] \o <<"|">> \o ln[2]
                    \o <<"[", "(">> \o ln[2] \o <<")", "]">>
        ELSE Indent \o src_name \o Arrow \o e[3] \o <<"|">> \o ShortName(e[2])

\* EdgeLines without the sort: the lines stay in the order of the edges
EdgeLines_NoSort(edges) == [i \in 1..Len(edges) |-> EdgeLine(edges[i])]

\* edge_lines after edge_lines.sort()
EdgeLines(edges) == SortLines([i \in 1..Len(edges) |-> EdgeLine(edges[i])])

\* mermaid_lines
MermaidLines(edges, direction) ==
    <<Header, GraphWord \o direction>> \o EdgeLines(edges) \o <<Footer>>

\* mermaid_text
MermaidText(edges, direction) == Join(MermaidLines(edges, direction), <<NL>>)

(***************************************************************************)
(* The inputs of a run: the files of the directory and the arguments.      *)
(***************************************************************************)
Entry(k, v) == <<k, v>>
Map1(k, v) == Map(<<Entry(k, v)>>)

NameX == <<"X">>
NameY == <<"Y">>
NameZ == <<"Z">>
MarkerSsm ==
    <<"{", "{", "r", "e", "s", "o", "l", "v", "e", ":", "s", "s", "m", ":", "p", "}", "}">>
MarkerS3 ==
    <<"{", "{", "r", "e", "s", "o", "l", "v", "e", ":", "s", "3", ":", "k", "}", "}">>

\* a template that imports its own export X
DocSelf ==
    Map(<<Entry("Outputs",
                Map1("O1", Map(<<Entry("Value", Str(<<"v">>)),
                                 Entry("Export", Map1("Name", Str(NameX)))>>))),
          Entry("Resources",
                Map1("R", Map1("Properties",
                               Map1("B", Map1("Fn::ImportValue", Str(NameX))))))>>)

\* a template that exports X and Y and holds an ssm dynamic reference
DocExporter ==
    Map(<<Entry("Resources", Map1("R", Map1("P", Str(MarkerSsm)))),
          Entry("Outputs",
                Map(<<Entry("O1", Map1("Export", Map1("Name", Str(NameX)))),
                      Entry("O2", Map1("Value", Str(<<"v">>))),
                      Entry("O3", Map1("Export", Map1("Name", Str(NameY))))>>))>>)

\* a template that imports X and Z and holds a dynamic reference whose
\* service tag is none of the three known ones
DocImporter ==
    Map1("Resources",
         Map1("R", Map(<<Entry("Tags", List(<<Map1("Fn::ImportValue", Str(NameX)),
                                               Map1("Fn::ImportValue", Str(NameZ))>>)),
                         Entry("Q", Str(<<"s", "3", ":">> \o MarkerS3))>>)))

\* a template whose export name is built with Fn::Sub
DocSubName ==
    Map1("Outputs",
         Map1("O1", Map1("Export",
                         Map1("Name", Map1("Fn::Sub", Str(<<"$", "{", "S", "}", "-", "X">>))))))

Pool == {DocSelf, DocExporter, DocImporter, DocSubName}

\* what a file holds: text the decoder rejects, or the text of a tree
Malformed == [decodable |-> FALSE, tree |-> None]
Decoded(t) == [decodable |-> TRUE, tree |-> t]
Contents == {Malformed} \cup {Decoded(t) : t \in Pool}

Directory == <<"d">>
AllPaths ==
    {<<"d", "/", "a", ".", "y", "a", "m", "l">>,
     <<"d", "/", "b", ".", "y", "m", "l">>,
     <<"d", "/", "c", ".", "y", "a", "m", "l">>,
     <<"d", "/", "e", ".", "y", "m", "l">>}

ExtYml == <<".", "y", "m", "l">>
ExtYaml == <<".", "y", "a", "m", "l">>
OutPath == <<"o", "u", "t", ".", "m", "d">>
OldContent == <<"o", "l", "d">>
DirLR == <<"L", "R">>
DirBT == <<"B", "T">>

\* argparse's defaults
DefaultArgs ==
    [directory |-> Directory, output_file |-> None, verbose |-> FALSE,
     direction |-> DirLR, version |-> FALSE]

\* s.endswith(suffix)
EndsWith(s, suffix) == HasAt(s, Len(s) - Len(suffix) + 1, suffix)

\* target_dir.glob("*" + ext): the files directly in target_dir whose name
\* ends with ext
Glob(fileset, target_dir, ext) ==
    {p \in fileset :
        /\ HasAt(p, 1, target_dir \o <<"/">>)
        /\ LastSlash(p, Len(p)) = Len(target_dir) + 1
        /\ EndsWith(p, ext)}

(***************************************************************************)
(* The state of a run of main().                                           *)
(***************************************************************************)
VARIABLES
    files,          \* path -> content of the files under the directory
    args,           \* the parsed arguments
    pc,             \* where main() is
    templates,      \* the list find_cfn_templates returned
    template_info,  \* path -> ScanResult, in insertion order
    nodes,          \* the ProducerIndex
    edges,          \* the edge list
    stdout,         \* what was printed to the primary stream
    stderr,         \* what was printed to the diagnostic stream
    status,         \* the exit status, -1 while the process runs
    target,         \* the output target: what open() found, what it holds
    fn_pc,          \* a function applied on its own: "idle", "call", "return"
    fn_in,          \* its argument
    fn_out          \* its result

vars == <<files, args, pc, templates, template_info, nodes, edges, stdout,
          stderr, status, target, fn_pc, fn_in, fn_out>>

runVars == <<templates, template_info, nodes, edges, stdout, stderr, status, target>>
fnVars == <<fn_pc, fn_in, fn_out>>

Unopened == [found |-> "unopened", content |-> <<>>]

\* the state of the output target that open() can find, and what it holds
TargetKinds == {"absent", "file", "dir", "noparent", "noperm"}
Found(k) ==
    [found |-> k, content |-> IF k \in {"file", "noperm"} THEN OldContent ELSE <<>>]

RunInit ==
    /\ args = DefaultArgs
    /\ templates = <<>>
    /\ template_info = <<>>
    /\ nodes = <<>>
    /\ edges = <<>>
    /\ stdout = <<>>
    /\ stderr = <<>>
    /\ status = -1
    /\ target = Unopened

Init ==
    /\ \E S \in SUBSET AllPaths :
          /\ Cardinality(S) <= MaxDocs
          /\ files \in [S -> Contents]
    /\ pc = "parse_args"
    /\ RunInit
    /\ fn_pc = "idle"
    /\ fn_in = None
    /\ fn_out = None

(***************************************************************************)
(* main(), step by step.                                                   *)
(***************************************************************************)
Exit(code) == status' = code /\ pc' = "exit"

\* parse_args: any combination of the options
ParseArgs ==
    /\ pc = "parse_args"
    /\ \E version, verbose \in BOOLEAN, direction \in {DirLR, DirBT},
          output_file \in {None, Str(<<>>), Str(OutPath)} :
          args' = [directory |-> Directory, output_file |-> output_file,
                   verbose |-> verbose, direction |-> direction,
                   version |-> version]
    /\ pc' = "parsed"
    /\ UNCHANGED <<files, runVars, fnVars>>

\* print_version_and_exit
PrintVersionAndExit ==
    /\ pc = "parsed"
    /\ args.version
    /\ stdout' = Append(stdout, [kind |-> "version"])
    /\ Exit(0)
    /\ UNCHANGED <<files, args, templates, template_info, nodes, edges, stderr,
                   target, fnVars>>

\* the lists find_cfn_templates can return: the *.yml files, then the
\* *.yaml files, each group in the order the file system yields it
find_cfn_templates(fileset, directory) ==
    {ymls \o yamls : ymls \in Orderings(Glob(fileset, directory, ExtYml)),
                     yamls \in Orderings(Glob(fileset, directory, ExtYaml))}

FindTemplates ==
    /\ pc = "parsed"
    /\ ~args.version
    /\ templates' \in find_cfn_templates(DOMAIN files, args.directory)
    /\ pc' = "collect_begin"
    /\ UNCHANGED <<files, args, template_info, nodes, edges, stdout, stderr,
                   status, target, fnVars>>

\* collect_template_info up to its loop
CollectBegin ==
    /\ pc = "collect_begin"
    /\ template_info' = <<>>
    /\ stdout' = IF args.verbose
                 THEN Append(stdout, [kind |-> "verbose", templates |-> templates])
                 ELSE stdout
    /\ pc' = "collect"
    /\ UNCHANGED <<files, args, templates, nodes, edges, stderr, status, target,
                   fnVars>>

\* the template the loop of collect_template_info is at
Scanning == pc = "collect" /\ Len(template_info) < Len(templates)
NextPath == templates[Len(template_info) + 1]

\* ScanDecodeError that reports the error and goes on with an empty result
ScanDecodeError_GoOn ==
    /\ Scanning
    /\ ~files[NextPath].decodable
    /\ stderr' = Append(stderr, [kind |-> "parse_error", path |-> NextPath])
    /\ template_info' = Append(template_info,
                               [path |-> NextPath, exports |-> {}, imports |-> {},
                                dynamics |-> {}])
    /\ UNCHANGED <<files, args, pc, templates, nodes, edges, stdout, status,
                   target, fnVars>>

\* one round of the loop: the decoder rejects the file
ScanDecodeError ==
    /\ Scanning
    /\ ~files[NextPath].decodable
    /\ stderr' = Append(stderr, [kind |-> "parse_error", path |-> NextPath])
    /\ Exit(1)
    /\ UNCHANGED <<files, args, templates, template_info, nodes, edges, stdout,
                   target, fnVars>>

\* one round of the loop: an exception nobody catches leaves the scan, the
\* interpreter prints the traceback and exits with status 1
ScanCrash ==
    /\ Scanning
    /\ files[NextPath].decodable
    /\ extract_exports_and_imports(files[NextPath].tree).crash
    /\ stderr' = Append(stderr, [kind |-> "traceback", path |-> NextPath])
    /\ Exit(1)
    /\ UNCHANGED <<files, args, templates, template_info, nodes, edges, stdout,
                   target, fnVars>>

\* template_info[path] = info
Record(info, path, r) ==
    Append(info, [path |-> path, exports |-> r.exports, imports |-> r.imports,
                  dynamics |-> r.dynamics])

\* one round of the loop: the scan result is recorded
ScanOk ==
    /\ Scanning
    /\ files[NextPath].decodable
    /\ LET r == extract_exports_and_imports(files[NextPath].tree)
       IN  /\ ~r.crash
           /\ template_info' = Record(template_info, NextPath, r)
    /\ UNCHANGED <<files, args, pc, templates, nodes, edges, stdout, stderr,
                   status, target, fnVars>>

\* the loop is over: build_dependency_graph
Build ==
    /\ pc = "collect"
    /\ Len(template_info) = Len(templates)
    /\ nodes' = GraphNodes(template_info)
    /\ edges' \in GraphEdgeLists(template_info)
    /\ pc' = "check"
    /\ UNCHANGED <<files, args, templates, template_info, stdout, stderr, status,
                   target, fnVars>>

Warning(path, imp) == [kind |-> "warning", path |-> path, name |-> imp]

\* DocWarningLists without `if imp in info["exports"]`: every import warns
DocWarningLists_EveryImport(doc) ==
    {[i \in 1..Len(io) |-> Warning(doc.path, io[i])] : io \in Orderings(doc.imports)}

\* the warnings of one document, in the order iterating over its imports
\* yields them
DocWarningLists(doc) ==
    {[i \in 1..Len(io) |-> Warning(doc.path, io[i])] :
        io \in Orderings(doc.imports \cap doc.exports)}

RECURSIVE WarningLists(_, _)
\* the warnings check_self_reference can print, from the i-th document on
WarningLists(info, i) ==
    IF i > Len(info) THEN {<<>>}
    ELSE {w \o rest : w \in DocWarningLists(info[i]),
                      rest \in WarningLists(info, i + 1)}

\* check_self_reference
CheckSelfReference ==
    /\ pc = "check"
    /\ \E w \in WarningLists(template_info, 1) : stderr' = stderr \o w
    /\ pc' = "render"
    /\ UNCHANGED <<files, args, templates, template_info, nodes, edges, stdout,
                   status, target, fnVars>>

Rendering == pc = "render"
ToFile == Truthy(args.output_file)

\* generate_mermaid_text without a target: the text is printed
PrintText ==
    /\ Rendering
    /\ ~ToFile
    /\ stdout' = Append(stdout, [kind |-> "text",
                                 text |-> MermaidText(edges, args.direction) \o <<NL>>])
    /\ Exit(0)
    /\ UNCHANGED <<files, args, templates, template_info, nodes, edges, stderr,
                   target, fnVars>>

\* WriteFile that prints the text as well (the print outside the else)
WriteFile_AlsoPrints ==
    /\ Rendering
    /\ ToFile
    /\ \E k \in {"absent", "file"} :
          target' = [found |-> k, content |-> MermaidText(edges, args.direction)]
    /\ stdout' = stdout \o <<[kind |-> "confirm", file |-> args.output_file.s],
                              [kind |-> "text",
                               text |-> MermaidText(edges, args.direction) \o <<NL>>]>>
    /\ Exit(0)
    /\ UNCHANGED <<files, args, templates, template_info, nodes, edges, stderr,
                   fnVars>>

\* generate_mermaid_text with a target that open() can write
WriteFile ==
    /\ Rendering
    /\ ToFile
    /\ \E k \in {"absent", "file"} :
          target' = [found |-> k, content |-> MermaidText(edges, args.direction)]
    /\ stdout' = Append(stdout, [kind |-> "confirm", file |-> args.output_file.s])
    /\ Exit(0)
    /\ UNCHANGED <<files, args, templates, template_info, nodes, edges, stderr,
                   fnVars>>

\* generate_mermaid_text when open() raises: the error is printed and the
\* process exits with the status of the exception
WriteFails(k, kind, code) ==
    /\ Rendering
    /\ ToFile
    /\ target' = Found(k)
    /\ stderr' = Append(stderr, [kind |-> kind, file |-> args.output_file.s])
    /\ Exit(code)
    /\ UNCHANGED <<files, args, templates, template_info, nodes, edges, stdout,
                   fnVars>>

\* WriteNotFound leaving with the status of the directory case
WriteNotFound_Status2 == WriteFails("noparent", "directory_not_found", 2)

\* IsADirectoryError
WriteIsADirectory == WriteFails("dir", "is_a_directory", 2)
\* FileNotFoundError
WriteNotFound == WriteFails("noparent", "directory_not_found", 3)
\* PermissionError
WritePermission == WriteFails("noperm", "permission_denied", 4)

Next ==
    \/ ParseArgs
    \/ PrintVersionAndExit
    \/ FindTemplates
    \/ CollectBegin
    \/ ScanDecodeError
    \/ ScanCrash
    \/ ScanOk
    \/ Build
    \/ CheckSelfReference
    \/ PrintText
    \/ WriteFile
    \/ WriteIsADirectory
    \/ WriteNotFound
    \/ WritePermission

Spec == Init /\ [][Next]_vars

(***************************************************************************)
(* Vocabulary of the properties.                                           *)
(***************************************************************************)
Range(f) == {f[i] : i \in DOMAIN f}
Docs == 1..Len(template_info)

\* build_dependency_graph has returned
Built ==
    \/ pc \in {"check", "render"}
    \/ pc = "exit" /\ ~args.version /\ status # 1

\* the collect loop is over and build_dependency_graph is about to run
AboutToBuild == pc = "collect" /\ Len(template_info) = Len(templates)

\* the documents that export name n
Producers(n) == {j \in Docs : n \in template_info[j].exports}

\* the last of a non-empty set of document indices in processing order
LastOf(J) == CHOOSE j \in J : \A k \in J : k <= j

\* the positions of edge e in the edge list
Positions(e) == {k \in 1..Len(edges) : edges[k] = e}

(***************************************************************************)
(* C1: every import of every document is resolved to an edge: to the       *)
(* document the ProducerIndex gives for the name when some scanned         *)
(* document exports it, to "(unknown)" otherwise; the import is never      *)
(* dropped, and the builder always returns.                                *)
(***************************************************************************)
C1_EveryImportResolved ==
    /\ AboutToBuild => ENABLED Build
    /\ Built =>
         \A i \in Docs : \A n \in template_info[i].imports :
            IF Producers(n) # {}
            THEN /\ n \in DOMAIN nodes
                 /\ nodes[n] \in {template_info[j].path : j \in Producers(n)}
                 /\ <<template_info[i].path, nodes[n], n, "import">> \in Range(edges)
            ELSE /\ n \notin DOMAIN nodes
                 /\ <<template_info[i].path, Unknown, n, "import">> \in Range(edges)

\* a built graph with one import resolved to a document and one to "(unknown)"
C1_Witness ==
    /\ Built
    /\ \E e \in Range(edges) : e[4] = "import" /\ e[2] = Unknown
    /\ \E e \in Range(edges) : e[4] = "import" /\ e[2] # Unknown

(***************************************************************************)
(* C2: when several documents export a name, the builder raises nothing,   *)
(* the ProducerIndex maps the name to the last of them in processing       *)
(* order, and every import edge of that name targets that document, also   *)
(* the edges of documents processed before it.                             *)
(***************************************************************************)
C2_LastWriteWins ==
    /\ (AboutToBuild /\ \E i, j \in Docs :
            i # j /\ template_info[i].exports \cap template_info[j].exports # {})
         => ENABLED Build
    /\ Built =>
         \A n \in UNION {template_info[j].exports : j \in Docs} :
            /\ n \in DOMAIN nodes
            /\ nodes[n] = template_info[LastOf(Producers(n))].path
            /\ \A e \in Range(edges) :
                  (e[4] = "import" /\ e[3] = n) => e[2] = nodes[n]

\* two documents export X, and a document processed before the second of
\* them imports X
C2_Witness ==
    /\ Built
    /\ \E n \in DOMAIN nodes :
          /\ Cardinality(Producers(n)) >= 2
          /\ \E i \in Docs :
                /\ i < LastOf(Producers(n))
                /\ n \in template_info[i].imports
                /\ <<template_info[i].path, nodes[n], n, "import">> \in Range(edges)

(***************************************************************************)
(* C3: the edge list holds exactly one import edge per (document, imported *)
(* name) and exactly one dynamic edge (document, marker, marker, dynamic)  *)
(* per (document, marker), and nothing else: edges are not deduplicated    *)
(* across documents, and one exporter A of X with one importer B of X      *)
(* gives the one import edge (B, A, X, import).                            *)
(***************************************************************************)
RECURSIVE SumOver(_, _)
SumOver(f, n) == IF n = 0 THEN 0 ELSE f[n] + SumOver(f, n - 1)

\* the number of references of all documents
ReferenceCount ==
    SumOver([i \in Docs |-> Cardinality(template_info[i].imports)
                            + Cardinality(template_info[i].dynamics)],
            Len(template_info))

C3_OneEdgePerReference ==
    Built =>
      /\ Len(edges) = ReferenceCount
      /\ \A i \in Docs :
            /\ \A n \in template_info[i].imports :
                  Cardinality({k \in 1..Len(edges) :
                      /\ edges[k][1] = template_info[i].path
                      /\ edges[k][3] = n
                      /\ edges[k][4] = "import"}) = 1
            /\ \A m \in template_info[i].dynamics :
                  Cardinality(Positions(<<template_info[i].path, m, m, "dynamic">>)) = 1
      /\ \A e \in Range(edges) :
            \E i \in Docs :
               /\ e[1] = template_info[i].path
               /\ \/ e[4] = "import" /\ e[3] \in template_info[i].imports
                  \/ /\ e[4] = "dynamic"
                     /\ e[3] \in template_info[i].dynamics
                     /\ e[2] = e[3]
      /\ \A a, b \in Docs : \A n \in template_info[a].exports :
            (/\ Producers(n) = {a}
             /\ {j \in Docs : n \in template_info[j].imports} = {b})
            => {e \in Range(edges) : e[4] = "import" /\ e[3] = n}
                 = {<<template_info[b].path, template_info[a].path, n, "import">>}

\* two documents import the same name and each has its own edge for it, and
\* a dynamic edge is present
C3_Witness ==
    /\ Built
    /\ \E i, j \in Docs :
          /\ i # j
          /\ \E n \in template_info[i].imports \cap template_info[j].imports :
                \E k, l \in 1..Len(edges) :
                   /\ k # l
                   /\ edges[k][3] = n /\ edges[k][1] = template_info[i].path
                   /\ edges[l][3] = n /\ edges[l][1] = template_info[j].path
    /\ \E e \in Range(edges) : e[4] = "dynamic"

(***************************************************************************)
(* C4: the diagram text of the pipeline does not depend on the order in    *)
(* which the documents are enumerated.                                     *)
(***************************************************************************)
\* the run ended with status 0 after rendering
Succeeded == pc = "exit" /\ status = 0 /\ ~args.version

\* the diagram text the run produced: the content of the target, or what
\* was printed without the newline print adds
ProducedText ==
    IF ToFile THEN target.content
    ELSE LET t == stdout[Len(stdout)].text IN SubSeq(t, 1, Len(t) - 1)

\* template_info as collected under every enumeration order of the documents
Reorderings(info) ==
    {[i \in 1..Len(info) |-> info[f[i]]] : f \in Orderings(1..Len(info))}

\* the texts the pipeline can produce from info
PipelineTexts(info, direction) ==
    {MermaidText(el, direction) : el \in GraphEdgeLists(info)}

\* every enumeration order of the documents of this run gives the text the
\* run produced
SameTextInEveryOrder ==
    \A r \in Reorderings(template_info) :
        PipelineTexts(r, args.direction) = {ProducedText}

\* no name that some document imports is exported by two documents
ImportedNamesHaveOneProducer ==
    \A i \in Docs : \A n \in template_info[i].imports :
        Cardinality(Producers(n)) <= 1

\* the claim as stated: it fails when two documents export an imported name,
\* since the last one processed becomes the target of the import edges
C4_AnyOrderSameText == Succeeded => SameTextInEveryOrder

\* C4 as amended: for documents among which no imported name has two
\* exporters, every enumeration order gives byte-identical diagram text
C4_AnyOrderSameTextUniqueProducers ==
    (Succeeded /\ ImportedNamesHaveOneProducer) => SameTextInEveryOrder

\* a finished run over several documents with resolved imports from two of
\* them, in which no imported name has two exporters
C4_Witness ==
    /\ Succeeded
    /\ ImportedNamesHaveOneProducer
    /\ Len(template_info) >= 2
    /\ \E k, l \in 1..Len(edges) :
          /\ edges[k][1] # edges[l][1]
          /\ edges[k][4] = "import" /\ edges[k][2] # Unknown
          /\ edges[l][4] = "import" /\ edges[l][2] # Unknown

(***************************************************************************)
(* generate_mermaid_text applied on its own to an edge list, without       *)
(* a target: fn_out is what it prints.                                     *)
(***************************************************************************)
PathA == <<"d", "/", "a", ".", "y", "a", "m", "l">>
PathB == <<"d", "/", "b", ".", "y", "m", "l">>

\* edges as build_dependency_graph makes them
EdgePool ==
    {<<PathA, PathB, NameX, "import">>,
     <<PathB, Unknown, NameZ, "import">>,
     <<PathA, MarkerSsm, MarkerSsm, "dynamic">>,
     <<PathB, MarkerS3, MarkerS3, "dynamic">>}

EdgeListsUpTo(n) == UNION {[1..k -> EdgePool] : k \in 0..n}

InitRender ==
    /\ files = <<>>
    /\ pc = "idle"
    /\ RunInit
    /\ fn_pc = "call"
    /\ \E el \in EdgeListsUpTo(MaxEdges), d \in {DirLR, DirBT} :
          fn_in = [fn |-> "generate_mermaid_text", edges |-> el, direction |-> d]
    /\ fn_out = None

\* generate_mermaid_text(edges, None, direction)
ApplyRender ==
    /\ fn_pc = "call"
    /\ fn_in.fn = "generate_mermaid_text"
    /\ fn_out' = MermaidText(fn_in.edges, fn_in.direction) \o <<NL>>
    /\ fn_pc' = "return"
    /\ UNCHANGED <<files, args, pc, runVars, fn_in>>

NextRender == ApplyRender

SpecRender == InitRender /\ [][NextRender]_vars

(***************************************************************************)
(* generate_mermaid_text applied on its own to one dynamic edge, without a *)
(* target: fn_out is what it prints.                                       *)
(***************************************************************************)
PathDynamic == <<"d", "y", "n", "a", "m", "i", "c", ".", "y", "a", "m", "l">>
MarkerMyParam == ResolvePrefix \o <<"s", "s", "m", "-", "s", "e", "c", "u", "r", "e", ":", "M", "y", "P", "a", "r", "a", "m", ":", "1">> \o CloseBraces

\* what stands between `{{resolve:` and the first colon of a marker: the
\* three service tags and two that are none of them
TagPool ==
    Range(ServiceTags) \cup {<<"s", "3">>, <<"S", "S", "M">>}

\* what stands after that colon: parameter names, placeholders of
\* Fn::Sub, a stray brace, nothing, and a text of two lines
PayloadPool ==
    {<<"p">>,
     <<"M", "y", "P", "a", "r", "a", "m", ":", "1">>,
     <<"$", "{", "M", "y", "S", "e", "c", "r", "e", "t", "}", ":", "S", "e", "c", "r", "e", "t", "S", "t", "r", "i", "n", "g", ":", "$", "{", "u", "s", "e", "r", "n", "a", "m", "e", "}">>,
     <<"M", "y", "S", "e", "c", "r", "e", "t", "}", ":", "S", "e", "c", "r", "e", "t", "S", "t", "r", "i", "n", "g", ":", "$", "{", "u", "s", "e", "r", "n", "a", "m", "e", "}">>,
     <<>>,
     <<"a", NL, "b">>}

\* markers, well formed or not: text before the opening braces, one or
\* three closing braces
MarkerPool ==
    {pre \o ResolvePrefix \o tag \o <<":">> \o payload \o close :
        pre \in {<<>>, <<"x">>}, tag \in TagPool, payload \in PayloadPool,
        close \in {CloseBraces, <<"}">>, CloseBraces \o <<"}">>}}

\* the edge lists of one dynamic edge
DynamicEdgeLists ==
    {<<DynamicEdge(p, m)>> : p \in {PathA, PathDynamic}, m \in MarkerPool}

InitRenderDynamic ==
    /\ files = <<>>
    /\ pc = "idle"
    /\ RunInit
    /\ fn_pc = "call"
    /\ \E el \in DynamicEdgeLists, d \in {DirLR, DirBT} :
          fn_in = [fn |-> "generate_mermaid_text", edges |-> el, direction |-> d]
    /\ fn_out = None

NextRenderDynamic == ApplyRender

SpecRenderDynamic == InitRenderDynamic /\ [][NextRenderDynamic]_vars

(***************************************************************************)
(* C5: for a fixed direction, every permutation of an edge list renders to *)
(* the same text; in it the edge lines, one per edge, stand in ascending   *)
(* lexicographic order between the header and `graph <direction>` lines    *)
(* and the footer.                                                         *)
(***************************************************************************)
RECURSIVE SplitOn(_, _)
\* s.split(c)
SplitOn(s, c) ==
    IF \A i \in 1..Len(s) : s[i] # c THEN <<s>>
    ELSE LET k == CHOOSE i \in 1..Len(s) :
                    s[i] = c /\ \A j \in 1..(i - 1) : s[j] # c
         IN  <<SubSeq(s, 1, k - 1)>> \o SplitOn(Drop(s, k + 1), c)

Rendered == fn_pc = "return" /\ fn_in.fn = "generate_mermaid_text"

\* the lines of the printed text between the four heading lines and the
\* three closing ones
PrintedEdgeLines ==
    LET ls == SplitOn(fn_out, NL) IN SubSeq(ls, 5, Len(ls) - 3)

C5_RenderIgnoresEdgeOrder ==
    Rendered =>
      LET el == fn_in.edges
          ls == SplitOn(fn_out, NL)
          body == PrintedEdgeLines
      IN  /\ \A f \in Orderings(1..Len(el)) :
                MermaidText([i \in 1..Len(el) |-> el[f[i]]], fn_in.direction)
                    \o <<NL>> = fn_out
          /\ Len(ls) = Len(el) + 7
          /\ SubSeq(ls, 1, 4) =
                <<SubSeq(Header, 1, 25), <<>>, SubSeq(Header, 28, Len(Header)),
                  GraphWord \o fn_in.direction>>
          /\ SubSeq(ls, Len(ls) - 2, Len(ls)) =
                <<<<Backtick, Backtick, Backtick>>, <<>>, <<>>>>
          /\ \A i \in 1..(Len(body) - 1) : ~LexLess(body[i + 1], body[i])
          /\ \A e \in Range(el) :
                Cardinality({i \in 1..Len(body) : body[i] = EdgeLine(e)})
                  = Cardinality({i \in 1..Len(el) : EdgeLine(el[i]) = EdgeLine(e)})

\* an edge list given in descending order of its lines, with a dynamic edge,
\* was rendered
C5_Witness ==
    /\ Rendered
    /\ Len(fn_in.edges) >= 3
    /\ \A i \in 1..(Len(fn_in.edges) - 1) :
          LexLess(EdgeLine(fn_in.edges[i + 1]), EdgeLine(fn_in.edges[i]))
    /\ \E e \in Range(fn_in.edges) : e[4] = "dynamic"
    /\ PrintedEdgeLines[1] = EdgeLine(fn_in.edges[Len(fn_in.edges)])

(***************************************************************************)
(* C6: check_self_reference prints exactly one warning for each (document, *)
(* name) with the name among both the imports and the exports of that      *)
(* document and none for any other; it prints them to the diagnostic       *)
(* stream only, does not end the run, and leaves template_info, the        *)
(* ProducerIndex and the edge list as they are, with the import edge of    *)
(* every self reference in the list.                                       *)
(***************************************************************************)
SelfReferences(i) == template_info[i].imports \cap template_info[i].exports

C6_CheckStep ==
    pc = "check" =>
      LET new == (Len(stderr) + 1)..Len(stderr')
      IN  /\ pc' = "render"
          /\ status' = -1
          /\ stdout' = stdout
          /\ target' = target
          /\ template_info' = template_info
          /\ nodes' = nodes
          /\ edges' = edges
          /\ SubSeq(stderr', 1, Len(stderr)) = stderr
          /\ Len(stderr') = Len(stderr)
                + SumOver([i \in Docs |-> Cardinality(SelfReferences(i))],
                          Len(template_info))
          /\ \A i \in Docs :
                \A n \in template_info[i].imports \cup template_info[i].exports :
                   Cardinality({k \in new :
                       stderr'[k] = Warning(template_info[i].path, n)})
                     = IF n \in SelfReferences(i) THEN 1 ELSE 0
          /\ \A k \in new :
                \E i \in Docs : \E n \in SelfReferences(i) :
                   stderr'[k] = Warning(template_info[i].path, n)
          /\ \A i \in Docs : \A n \in SelfReferences(i) :
                <<template_info[i].path, nodes[n], n, "import">> \in Range(edges')

C6_SelfReferenceWarnings == [][C6_CheckStep]_vars

\* the check has run over a document that imports its own export and a
\* document that imports names it does not export: one warning was printed
C6_Witness ==
    /\ pc = "render"
    /\ \E i, j \in Docs :
          /\ SelfReferences(i) # {}
          /\ template_info[j].imports # {} /\ SelfReferences(j) = {}
          /\ stderr = <<Warning(template_info[i].path, NameX)>>

(***************************************************************************)
(* C7: a document that cannot be decoded ends the run at that document:    *)
(* the error goes to the diagnostic stream and the status is 1; no         *)
(* ScanResult is recorded for it, no later document is scanned, no         *)
(* self-reference warning is printed and no diagram text is printed or     *)
(* written.  So a self-reference warning is only ever printed after all    *)
(* documents were scanned.                                                 *)
(***************************************************************************)
ParseError(path) == [kind |-> "parse_error", path |-> path]
Kinds(stream) == {stream[k].kind : k \in 1..Len(stream)}
RecordedPaths == {template_info[i].path : i \in Docs}

C7_State ==
    /\ \A i \in Docs : files[template_info[i].path].decodable
    /\ "parse_error" \in Kinds(stderr) =>
          /\ pc = "exit"
          /\ status = 1
          /\ Len(template_info) < Len(templates)
          /\ ~files[NextPath].decodable
          /\ stderr = <<ParseError(NextPath)>>
          /\ Kinds(stdout) \subseteq {"verbose"}
          /\ target = Unopened
          /\ RecordedPaths = {templates[i] : i \in 1..Len(template_info)}
    /\ "warning" \in Kinds(stderr) =>
          /\ RecordedPaths = Range(templates)
          /\ \A p \in Range(templates) : files[p].decodable

C7_Step ==
    /\ (Scanning /\ ~files[NextPath].decodable) =>
          /\ pc' = "exit"
          /\ status' = 1
          /\ stderr' = Append(stderr, ParseError(NextPath))
          /\ template_info' = template_info
          /\ stdout' = stdout
          /\ target' = target
    /\ pc = "exit" => UNCHANGED vars

C7_DecodeFailureFailsFast == [](C7_State) /\ [][C7_Step]_vars

\* the first of two templates was rejected: the run is over with status 1,
\* the decodable second one was never scanned
C7_Witness ==
    /\ pc = "exit"
    /\ status = 1
    /\ Len(templates) = 2
    /\ template_info = <<>>
    /\ stderr = <<ParseError(templates[1])>>
    /\ files[templates[2]].decodable
    /\ ~extract_exports_and_imports(files[templates[2]].tree).crash
    /\ Truthy(args.output_file)

(***************************************************************************)
(* C8: writing to a target fails in three distinguished ways: the target   *)
(* is a directory (status 2), its parent directory is missing (status 3),  *)
(* permission is denied (status 4).  Each prints its error to the          *)
(* diagnostic stream, writes no diagram content and prints no              *)
(* confirmation; status 0 is only reached without a decode or write        *)
(* failure.                                                                *)
(***************************************************************************)
WriteError(kind) == [kind |-> kind, file |-> args.output_file.s]

\* the run ended as the write failure `kind` with exit status code
FailedAs(kind, code) ==
    /\ pc = "exit"
    /\ status = code
    /\ ToFile
    /\ stderr # <<>>
    /\ stderr[Len(stderr)] = WriteError(kind)
    /\ target.content = Found(target.found).content
    /\ target.content # MermaidText(edges, args.direction)
    /\ "confirm" \notin Kinds(stdout)
    /\ "text" \notin Kinds(stdout)

C8_WriteFailures ==
    /\ target.found = "dir" => FailedAs("is_a_directory", 2)
    /\ target.found = "noparent" => FailedAs("directory_not_found", 3)
    /\ target.found = "noperm" => FailedAs("permission_denied", 4)
    /\ status = 2 => target.found = "dir"
    /\ status = 3 => target.found = "noparent"
    /\ status = 4 => target.found = "noperm"
    /\ status = 0 =>
          /\ pc = "exit"
          /\ Kinds(stderr) \subseteq {"warning"}
          /\ target.found \in {"unopened", "absent", "file"}
          /\ \A p \in Range(templates) : files[p].decodable

\* the target was a directory: the run is over with status 2 and a graph
\* with edges was not written
C8_Witness ==
    /\ target.found = "dir"
    /\ status = 2
    /\ edges # <<>>
    /\ Kinds(stderr) = {"warning", "is_a_directory"}

(***************************************************************************)
(* C9: with a target path and a successful write the target holds exactly  *)
(* the full diagram text, whatever it held before, and the primary stream  *)
(* gets the confirmation and not the text; without a target path the full  *)
(* text is printed and no file is written.  (An empty path is no path to   *)
(* `if output_file`; with --verbose the template list that                 *)
(* collect_template_info printed earlier precedes either.)                 *)
(***************************************************************************)
VerboseLines ==
    IF args.verbose THEN <<[kind |-> "verbose", templates |-> templates]>> ELSE <<>>

\* text runs from the header to the footer with one line per edge
IsFullDiagram(text) ==
    /\ HasAt(text, 1, Header \o <<NL>> \o GraphWord \o args.direction \o <<NL>>)
    /\ EndsWith(text, <<NL>> \o Footer)
    /\ Len(SplitOn(text, NL)) = Len(edges) + 6
    /\ text = MermaidText(edges, args.direction)

C9_OneDestination ==
    Succeeded =>
      IF args.output_file # None /\ args.output_file.s # <<>>
      THEN /\ target.found \in {"absent", "file"}
           /\ IsFullDiagram(target.content)
           /\ stdout = VerboseLines
                \o <<[kind |-> "confirm", file |-> args.output_file.s]>>
      ELSE /\ target = Unopened
           /\ stdout # <<>>
           /\ stdout[Len(stdout)].kind = "text"
           /\ IsFullDiagram(SubSeq(stdout[Len(stdout)].text, 1,
                                   Len(stdout[Len(stdout)].text) - 1))
           /\ stdout[Len(stdout)].text[Len(stdout[Len(stdout)].text)] = NL
           /\ Len(stdout) = Len(VerboseLines) + 1

\* a graph with edges was written over a file that held something else
C9_Witness ==
    /\ Succeeded
    /\ args.output_file = Str(OutPath)
    /\ target.found = "file"
    /\ target.content # OldContent
    /\ edges # <<>>
    /\ stdout = <<[kind |-> "confirm", file |-> OutPath]>>

(***************************************************************************)
(* extract_exports_and_imports applied on its own to a decoded document:   *)
(* fn_out is its result, with crash TRUE when an exception left it.        *)
(***************************************************************************)
NameW == <<"W">>
SubValue == Map1("Fn::Sub", Str(<<"$", "{", "S", "}", "-", "X">>))

\* the entries an Outputs mapping is made of
OutputEntries ==
    {Map(<<Entry("Value", Str(<<"v">>)), Entry("Name", Str(NameZ))>>),
     Map1("Export", Map1("Value", Str(NameZ))),
     Map1("Export", Map1("Name", Str(<<>>))),
     Map(<<Entry("Value", Str(<<"v">>)), Entry("Export", Map1("Name", Str(NameX)))>>),
     Map1("Export", Map1("Name", Str(NameY))),
     Map1("Export", Map1("Name", SubValue))}

OutputKeys == <<"O1", "O2", "O3", "O4">>

\* the top-level siblings of Outputs: a Resources mapping that holds an
\* import and, below the top level, an Outputs mapping and an Export
OtherSections ==
    <<Entry("Resources",
            Map1("R", Map(<<Entry("Outputs",
                                  Map1("O", Map1("Export", Map1("Name", Str(NameW))))),
                            Entry("B", Map1("Fn::ImportValue", Str(NameX)))>>))),
      Entry("Export", Map1("Name", Str(NameW)))>>

\* a Resources mapping that holds an import of the empty name next to a
\* dynamic reference
EmptyImportSection ==
    <<Entry("Resources",
            Map1("R", Map(<<Entry("A", Map1("Fn::ImportValue", Str(<<>>))),
                            Entry("P", Str(MarkerSsm))>>)))>>

\* the documents scanned: with or without Outputs, with or without siblings
OutputsOf(es) == Map([i \in 1..Len(es) |-> Entry(OutputKeys[i], es[i])])
ExtractInputs ==
    {Map(sib \o out) :
        sib \in {<<>>, OtherSections, EmptyImportSection},
        out \in {<<>>} \cup
                {<<Entry("Outputs", OutputsOf(es))>> :
                    es \in UNION {[1..k -> OutputEntries] : k \in 0..MaxOutputs}}}

InitExtract ==
    /\ files = <<>>
    /\ pc = "idle"
    /\ RunInit
    /\ fn_pc = "call"
    /\ \E t \in ExtractInputs :
          fn_in = [fn |-> "extract_exports_and_imports", tree |-> t]
    /\ fn_out = None

\* extract_exports_and_imports(filepath) on a file that decodes to fn_in.tree
ApplyExtract ==
    /\ fn_pc = "call"
    /\ fn_in.fn = "extract_exports_and_imports"
    /\ fn_out' = extract_exports_and_imports(fn_in.tree)
    /\ fn_pc' = "return"
    /\ UNCHANGED <<files, args, pc, runVars, fn_in>>

NextExtract == ApplyExtract

SpecExtract == InitExtract /\ [][NextExtract]_vars

(***************************************************************************)
(* C10: for every decoded document the exports set is exactly the set of   *)
(* the non-empty Export.Name values of the entries of the top-level        *)
(* Outputs mapping; entries without Export or without Name add nothing,    *)
(* other keys do not matter, and a document without Outputs gives the      *)
(* empty set without error.                                                *)
(***************************************************************************)
Extracted == fn_pc = "return" /\ fn_in.fn = "extract_exports_and_imports"

\* the values under Outputs.*.Export.Name of document d
ExportNameValues(d) ==
    LET outs == IF HasKey(d, "Outputs") THEN DictGet(d, "Outputs", None).kv ELSE <<>>
        exps == {outs[i][2].kv[j][2] : <<i, j>> \in
                    {<<i, j>> \in (1..Len(outs)) \X (1..2) :
                        /\ j <= Len(outs[i][2].kv)
                        /\ outs[i][2].kv[j][1] = "Export"}}
    IN  {e.kv[j][2] : <<e, j>> \in
            {<<e, j>> \in exps \X (1..2) : j <= Len(e.kv) /\ e.kv[j][1] = "Name"}}

\* those of them that are not empty
NonEmptyExportNames(d) ==
    {v \in ExportNameValues(d) : v # Str(<<>>) /\ v # Map(<<>>) /\ v # List(<<>>)}

\* the claim as stated.  The code fails it on an Export.Name that is a
\* mapping, such as the {"Fn::Sub": ...} that `Name: !Sub ...` decodes to:
\* exports.add(export) raises TypeError (unhashable type: 'dict').
C10_ExportsAreTheExportNames ==
    Extracted =>
      /\ ~fn_out.crash
      /\ {Str(n) : n \in fn_out.exports} = NonEmptyExportNames(fn_in.tree)

(***************************************************************************)
(* find_imports applied on its own to a decoded tree and an empty set:     *)
(* fn_out is the set afterwards, with crash TRUE when an exception left    *)
(* the function.                                                           *)
(***************************************************************************)
ImportLeaves == {Str(NameX), Str(NameY), Str(<<>>)}

\* the mappings and sequences made of the trees ts: a reference, a mapping
\* under another key, a sequence, a mapping with a reference and a sibling
ImportNodes(ts) ==
    {Map1("Fn::ImportValue", t) : t \in ts}
      \cup {Map1("Ref", t) : t \in ts}
      \cup {List(<<a, b>>) : a, b \in ts}
      \cup {Map(<<Entry("Fn::ImportValue", a), Entry("Properties", b)>>) : a, b \in ts}

\* the trees searched: the leaves and two levels of nodes above them
ImportInputs ==
    LET level1 == ImportLeaves \cup ImportNodes(ImportLeaves)
    IN  level1 \cup ImportNodes(level1)

InitImports ==
    /\ files = <<>>
    /\ pc = "idle"
    /\ RunInit
    /\ fn_pc = "call"
    /\ \E t \in ImportInputs : fn_in = [fn |-> "find_imports", tree |-> t]
    /\ fn_out = None

\* imports = set(); find_imports(obj, imports)
ApplyImports ==
    /\ fn_pc = "call"
    /\ fn_in.fn = "find_imports"
    /\ fn_out' = find_imports(fn_in.tree, EmptyAcc)
    /\ fn_pc' = "return"
    /\ UNCHANGED <<files, args, pc, runVars, fn_in>>

NextImports == ApplyImports

SpecImports == InitImports /\ [][NextImports]_vars

(***************************************************************************)
(* C11: for every document tree, find_imports collects the value of every  *)
(* Fn::ImportValue key of every mapping of the tree, at any depth through  *)
(* mapping values and sequence elements and also inside the value of       *)
(* another Fn::ImportValue, and nothing else; a recurring name is held     *)
(* once.                                                                   *)
(***************************************************************************)
ImportsFound == fn_pc = "return" /\ fn_in.fn = "find_imports"

RECURSIVE ImportValueValues(_)
\* the values under an Fn::ImportValue key anywhere in tree t
ImportValueValues(t) ==
    CASE t.tag = "map" ->
           {t.kv[i][2] : i \in {j \in 1..Len(t.kv) : t.kv[j][1] = "Fn::ImportValue"}}
             \cup UNION {ImportValueValues(t.kv[i][2]) : i \in 1..Len(t.kv)}
      [] t.tag = "seq" -> UNION {ImportValueValues(t.items[i]) : i \in 1..Len(t.items)}
      [] OTHER -> {}

\* the claim as stated.  The code fails it on an Fn::ImportValue whose value
\* is a mapping or a sequence, such as the {"Fn::Sub": ...} that
\* `Fn::ImportValue: !Sub ...` decodes to or a nested Fn::ImportValue:
\* imports.add(value) raises TypeError before the traversal enters the value.
C11_ImportsAreTheImportValues ==
    ImportsFound =>
      /\ ~fn_out.crash
      /\ {Str(n) : n \in fn_out.set} = ImportValueValues(fn_in.tree)

(***************************************************************************)
(* find_dynamic_references applied on its own to a decoded tree and an     *)
(* empty set: fn_out is the set afterwards.                                *)
(***************************************************************************)
MarkerB == ResolvePrefix \o <<"b">> \o CloseBraces

\* the string scalars searched: without a marker, with one, with two, with
\* text around the marker, with an unterminated marker, with a second
\* `{{resolve:` before the first `}}`, with an empty payload, with a third
\* closing brace, and with a line break before the first `}}`
DynStrings ==
    {<<"p", "l", "a", "i", "n">>,
     MarkerSsm,
     MarkerSsm \o <<" ">> \o MarkerS3,
     <<"s", "3", ":">> \o MarkerS3 \o <<"}", "{">>,
     ResolvePrefix \o <<"s", "s", "m", ":", "p">>,
     ResolvePrefix \o <<"a">> \o MarkerB,
     ResolvePrefix \o CloseBraces,
     MarkerB \o <<"}">> \o MarkerB,
     ResolvePrefix \o <<"s", "s", "m", ":", "a", NL, "b">> \o CloseBraces,
     ResolvePrefix \o <<"a", NL>> \o MarkerB \o MarkerSsm}

\* the scalars of the trees searched: the strings and null
DynLeaves == {Str(s) : s \in DynStrings} \cup {None}

\* the trees searched: a scalar, a scalar in a mapping or in a sequence, and
\* these in a mapping or in a sequence again
DynInputs ==
    LET level1 == DynLeaves
                    \cup {Map1("BucketName", t) : t \in DynLeaves}
                    \cup {List(<<a, b>>) : a, b \in DynLeaves}
                    \cup {Map(<<Entry("Key", a), Entry("Value", b)>>) :
                             a, b \in DynLeaves}
    IN  level1 \cup {Map1("Resources", t) : t \in level1}
               \cup {List(<<a, b>>) : a \in level1, b \in DynLeaves}

InitDynamics ==
    /\ files = <<>>
    /\ pc = "idle"
    /\ RunInit
    /\ fn_pc = "call"
    /\ \E t \in DynInputs : fn_in = [fn |-> "find_dynamic_references", tree |-> t]
    /\ fn_out = None

\* dynamics = set(); find_dynamic_references(obj, dynamics)
ApplyDynamics ==
    /\ fn_pc = "call"
    /\ fn_in.fn = "find_dynamic_references"
    /\ fn_out' = find_dynamic_references(fn_in.tree, EmptyAcc)
    /\ fn_pc' = "return"
    /\ UNCHANGED <<files, args, pc, runVars, fn_in>>

NextDynamics == ApplyDynamics

SpecDynamics == InitDynamics /\ [][NextDynamics]_vars

(***************************************************************************)
(* C12: dynamics is exactly the set of the non-overlapping substrings      *)
(* `{{resolve:<payload>}}`, the payload ending at the first following      *)
(* `}}`, found from left to right in every string scalar of the tree at    *)
(* any depth through mapping values and sequence elements; each is held    *)
(* verbatim, a scalar with several markers gives all of them and a scalar  *)
(* without one gives nothing.                                              *)
(***************************************************************************)
DynamicsFound == fn_pc = "return" /\ fn_in.fn = "find_dynamic_references"

RECURSIVE StringScalars(_)
\* the strings that are scalar values of tree t
StringScalars(t) ==
    CASE t.tag = "str" -> {t.s}
      [] t.tag = "map" -> UNION {StringScalars(t.kv[i][2]) : i \in 1..Len(t.kv)}
      [] t.tag = "seq" -> UNION {StringScalars(t.items[i]) : i \in 1..Len(t.items)}
      [] OTHER -> {}

\* the index of the second brace of the first `}}` that follows the
\* `{{resolve:` at index i of s, 0 when none follows
FirstClose(s, i) ==
    LET ks == {k \in (i + Len(ResolvePrefix))..(Len(s) - 1) : HasAt(s, k, CloseBraces)}
    IN  IF ks = {} THEN 0 ELSE 1 + CHOOSE k \in ks : \A h \in ks : k <= h

\* the markers of s whose payload is made of the characters in payload:
\* each runs from a `{{resolve:` to the first `}}` that follows it, and
\* none starts inside a marker that starts further left
MarkersIn(s, payload) ==
    LET starts == {i \in 1..Len(s) :
                     /\ HasAt(s, i, ResolvePrefix)
                     /\ FirstClose(s, i) # 0
                     /\ \A k \in (i + Len(ResolvePrefix))..(FirstClose(s, i) - 2) :
                           s[k] \in payload}
        leftmost == {i \in starts : \A h \in starts : h < i => FirstClose(s, h) < i}
    IN  {SubSeq(s, i, FirstClose(s, i)) : i \in leftmost}

\* the markers of all string scalars of tree t
MarkersOfTree(t, payload) == UNION {MarkersIn(s, payload) : s \in StringScalars(t)}

\* the claim as stated: the payload is any characters.  It fails on a scalar
\* with a line break between `{{resolve:` and the first `}}`: the `.` of the
\* pattern matches no line break, so that marker is not found.
C12_DynamicsAreTheMarkers ==
    DynamicsFound =>
      /\ ~fn_out.crash
      /\ fn_out.set = MarkersOfTree(fn_in.tree, Chars)

\* C12 as amended: dynamics is exactly the set of the non-overlapping
\* substrings `{{resolve:<payload>}}` whose payload, ending at the first
\* following `}}`, holds no line break, found from left to right in every
\* string scalar of the tree at any depth
C12_DynamicsAreTheOneLineMarkers ==
    DynamicsFound =>
      /\ ~fn_out.crash
      /\ fn_out.set = MarkersOfTree(fn_in.tree, Chars \ {NL})
      /\ \A m \in fn_out.set :
            \E s \in StringScalars(fn_in.tree) :
               \E i \in 1..Len(s) : HasAt(s, i, m)

\* a sequence was searched that holds, inside a mapping, a scalar with two
\* markers, and a scalar whose first `{{resolve:` is cut by a line break:
\* the two markers and the two that follow the line break were found
C12_Witness ==
    /\ DynamicsFound
    /\ fn_in.tree =
          List(<<Map1("BucketName", Str(MarkerSsm \o <<" ">> \o MarkerS3)),
                 Str(ResolvePrefix \o <<"a", NL>> \o MarkerB \o MarkerSsm)>>)
    /\ fn_out.set = {MarkerSsm, MarkerS3, MarkerB}

(***************************************************************************)
(* C13: for every document that is scanned successfully, the sets exports, *)
(* imports and dynamics that extract_exports_and_imports returns hold only *)
(* non-empty strings, whatever the values under Export.Name and            *)
(* Fn::ImportValue are.                                                    *)
(***************************************************************************)
ScannedSuccessfully == Extracted /\ ~fn_out.crash

\* the claim as stated.  The code fails it on `Fn::ImportValue: ""`:
\* find_imports adds the value unchecked, while the Outputs loop filters the
\* empty Export.Name with `if export`.
C13_OnlyNonEmptyStrings ==
    ScannedSuccessfully =>
      \A n \in fn_out.exports \cup fn_out.imports \cup fn_out.dynamics :
         /\ n \in Seq(Chars)
         /\ n # <<>>

(***************************************************************************)
(* C14: a dynamic edge whose whole marker is `{{resolve:`, one of ssm,     *)
(* ssm-secure and secretsmanager, a colon, a payload of one or more        *)
(* characters on one line and `}}` renders as                              *)
(* `    <src-short-name>-->|<tag>|<node>[(<node>)]` with node the          *)
(* normalized payload; any other marker (unrecognized tag, malformed       *)
(* structure) renders with the label `dynamic` and node the normalized     *)
(* whole marker.  `{{resolve:ssm-secure:MyParam:1}}` from dynamic.yaml     *)
(* renders `dynamic.yaml-->|ssm-secure|MyParam:1[(MyParam:1)]`.            *)
(***************************************************************************)
\* marker m is `{{resolve:` tag `:` payload `}}` with such a payload
RecognisedAs(m, tag) ==
    LET head == ResolvePrefix \o tag \o <<":">>
    IN  /\ Len(m) > Len(head) + Len(CloseBraces)
        /\ m = head \o SubSeq(m, Len(head) + 1, Len(m) - 2) \o CloseBraces
        /\ \A k \in (Len(head) + 1)..(Len(m) - 2) : m[k] # NL

\* s without its braces, placeholders `${Identifier}` becoming `$Identifier`
StripBraces(s) == SelectSeq(s, LAMBDA c : c \notin {"{", "}"})

DynamicLineOf(src, label, node) ==
    Indent \o PathName(src) \o <<"-", "-", ">", "|">> \o label \o <<"|">>
        \o node \o <<"[", "(">> \o node \o <<")", "]">>

\* the line the claim gives for the dynamic edge e
ExpectedDynamicLine(e) ==
    LET tags == {t \in Range(ServiceTags) : RecognisedAs(e[3], t)}
    IN  IF tags # {}
        THEN LET tag == CHOOSE t \in tags : TRUE
                 payload == SubSeq(e[3], Len(ResolvePrefix) + Len(tag) + 2,
                                   Len(e[3]) - 2)
             IN  DynamicLineOf(e[1], tag, StripBraces(payload))
        ELSE DynamicLineOf(e[1], DynamicWord, StripBraces(e[3]))

\* line stands in the printed text as a line of its own
PrintedLine(line) ==
    \E i \in 1..Len(fn_out) : HasAt(fn_out, i, <<NL>> \o line \o <<NL>>)

MyParamLine ==
    <<" ", " ", " ", " ", "d", "y", "n", "a", "m", "i", "c", ".", "y", "a", "m", "l", "-", "-", ">", "|", "s", "s", "m", "-", "s", "e", "c", "u", "r", "e", "|", "M", "y", "P", "a", "r", "a", "m", ":", "1", "[", "(", "M", "y", "P", "a", "r", "a", "m", ":", "1", ")", "]">>

C14_DynamicEdgeRendering ==
    Rendered =>
      /\ \A k \in 1..Len(fn_in.edges) :
            fn_in.edges[k][4] = "dynamic" =>
               PrintedLine(ExpectedDynamicLine(fn_in.edges[k]))
      /\ \A e \in Range(fn_in.edges) :
            (e[1] = PathDynamic /\ e[3] = MarkerMyParam) => PrintedLine(MyParamLine)

\* the ssm-secure marker of dynamic.yaml was rendered with its tag and
\* its payload
C14_Witness ==
    /\ Rendered
    /\ fn_in.edges = <<DynamicEdge(PathDynamic, MarkerMyParam)>>
    /\ PrintedLine(MyParamLine)

(***************************************************************************)
(* find_cfn_templates applied on its own to a directory of a file system:  *)
(* fn_in.files is the set of the files there are, fn_out the list          *)
(* returned.                                                               *)
(***************************************************************************)
\* files directly in the directory, in its subdirectories and beside it,
\* with the two extensions, with another one and with none
TreePaths ==
    {<<"d", "/", "a", ".", "y", "a", "m", "l">>,
     <<"d", "/", "b", ".", "y", "m", "l">>,
     <<"d", "/", "n", ".", "t", "x", "t">>,
     <<"d", "/", "y", "m", "l">>,
     <<"d", "/", "s", "/", "c", ".", "y", "a", "m", "l">>,
     <<"d", "/", "s", "/", "t", "/", "e", ".", "y", "m", "l">>,
     <<"d", "/", "s", "/", "m", ".", "m", "d">>,
     <<"o", "/", "f", ".", "y", "m", "l">>}

InitFind ==
    /\ files = <<>>
    /\ pc = "idle"
    /\ RunInit
    /\ fn_pc = "call"
    /\ \E S \in SUBSET TreePaths :
          fn_in = [fn |-> "find_cfn_templates", files |-> S, directory |-> Directory]
    /\ fn_out = None

\* find_cfn_templates(directory)
ApplyFind ==
    /\ fn_pc = "call"
    /\ fn_in.fn = "find_cfn_templates"
    /\ fn_out' \in find_cfn_templates(fn_in.files, fn_in.directory)
    /\ fn_pc' = "return"
    /\ UNCHANGED <<files, args, pc, runVars, fn_in>>

NextFind == ApplyFind

SpecFind == InitFind /\ [][NextFind]_vars

(***************************************************************************)
(* C15: find_cfn_templates(directory) returns every file with extension    *)
(* `.yml` or `.yaml` that lies anywhere under the directory, in            *)
(* subdirectories of any depth too, and no other file.                     *)
(***************************************************************************)
TemplatesFound == fn_pc = "return" /\ fn_in.fn = "find_cfn_templates"

\* path p lies under directory dir, at any depth
Under(p, dir) == HasAt(p, 1, dir \o <<"/">>)

\* the claim as stated.  The code fails it on a template in a subdirectory:
\* glob("*.yml") and glob("*.yaml") list the directory itself only, although
\* the docstring of the function says "recursively".
C15_FindsTemplatesAtAnyDepth ==
    TemplatesFound =>
      {fn_out[i] : i \in 1..Len(fn_out)} =
         {p \in fn_in.files :
             /\ Under(p, fn_in.directory)
             /\ EndsWith(p, ExtYml) \/ EndsWith(p, ExtYaml)}

(***************************************************************************)
(* normalize_dynamic_node applied on its own to a string: fn_out is the    *)
(* string returned.                                                        *)
(***************************************************************************)
\* the characters that matter to the function: the dollar sign, the
\* braces, identifier characters and one that is none of these
NormAlphabet == {"$", "{", "}", "a", "_", ":"}

PayloadStray == <<"M", "y", "S", "e", "c", "r", "e", "t", "}", ":", "S", "e", "c", "r", "e", "t", "S", "t", "r", "i", "n", "g", ":", "$", "{", "u", "s", "e", "r", "n", "a", "m", "e", "}">>
PayloadTwoVars == <<"$", "{", "M", "y", "S", "e", "c", "r", "e", "t", "}", ":", "S", "e", "c", "r", "e", "t", "S", "t", "r", "i", "n", "g", ":", "$", "{", "u", "s", "e", "r", "n", "a", "m", "e", "}">>

\* the strings normalized: every string over the alphabet up to the
\* bound, and the payloads the comments of the code speak of
NormInputs ==
    UNION {[1..n -> NormAlphabet] : n \in 0..MaxLen}
      \cup {PayloadStray, PayloadTwoVars}

InitNormalize ==
    /\ files = <<>>
    /\ pc = "idle"
    /\ RunInit
    /\ fn_pc = "call"
    /\ \E s \in NormInputs : fn_in = [fn |-> "normalize_dynamic_node", node |-> s]
    /\ fn_out = None

\* normalize_dynamic_node(node)
ApplyNormalize ==
    /\ fn_pc = "call"
    /\ fn_in.fn = "normalize_dynamic_node"
    /\ fn_out' = normalize_dynamic_node(fn_in.node)
    /\ fn_pc' = "return"
    /\ UNCHANGED <<files, args, pc, runVars, fn_in>>

NextNormalize == ApplyNormalize

SpecNormalize == InitNormalize /\ [][NextNormalize]_vars

(***************************************************************************)
(* C16: normalize_dynamic_node turns every `${Identifier}` into            *)
(* `$Identifier`, removes every other `{` and `}` and keeps all other      *)
(* characters in their order; so the result holds no brace, and            *)
(* normalizing it again changes nothing.                                   *)
(* `MySecret}:SecretString:${username}` becomes                            *)
(* `MySecret:SecretString:$username`.                                      *)
(***************************************************************************)
Normalized == fn_pc = "return" /\ fn_in.fn = "normalize_dynamic_node"

\* s is `${`, one or more identifier characters, `}`
IsPlaceholder(s) ==
    /\ Len(s) >= 4
    /\ HasAt(s, 1, <<"$", "{">>)
    /\ s[Len(s)] = "}"
    /\ \A k \in 3..(Len(s) - 1) : s[k] \in IdentChars

NormalizedStray == <<"M", "y", "S", "e", "c", "r", "e", "t", ":", "S", "e", "c", "r", "e", "t", "S", "t", "r", "i", "n", "g", ":", "$", "u", "s", "e", "r", "n", "a", "m", "e">>

C16_NormalizeStripsBraces ==
    Normalized =>
      /\ fn_out = StripBraces(fn_in.node)
      /\ \A i \in 1..Len(fn_out) : fn_out[i] \notin {"{", "}"}
      /\ normalize_dynamic_node(fn_out) = fn_out
      /\ IsPlaceholder(fn_in.node) =>
            fn_out = <<"$">> \o SubSeq(fn_in.node, 3, Len(fn_in.node) - 1)
      /\ fn_in.node = PayloadStray => fn_out = NormalizedStray

\* the payload with a stray brace and a placeholder was normalized
C16_Witness ==
    /\ Normalized
    /\ fn_in.node = PayloadStray
    /\ fn_out = NormalizedStray

====
